---------------------------- MODULE Spec2Model ----------------------------
(***************************************************************************)
(* A model of the pull-request review agent (scripts: getPrDiff,           *)
(* getReviewFromGlm, getCommitSha, postCodexReview,                        *)
(* postCodexReviewWithFallback, main).                                     *)
(*                                                                         *)
(* Representation of strings.                                              *)
(*   - A model reply, a commit id, a review body: a Text, i.e. a sequence  *)
(*     of chunks (TLA+ strings); the string it stands for is the           *)
(*     concatenation of its chunks.  The chunks are JSON lexemes ("{",     *)
(*     "null", a quoted string literal, a digit), the white-space          *)
(*     characters " " and "\n", the prose word "w", and fixed pieces of    *)
(*     the script's templates.  The brace characters occur only as the     *)
(*     chunks "{" and "}".                                                 *)
(*   - A diff: a run-length encoded string, a sequence of runs             *)
(*     [c |-> character, n |-> repetitions].                               *)
(***************************************************************************)
EXTENDS Integers, Sequences, FiniteSets, TLC

(***************************************************************************)
(* Bounds of the model.                                                    *)
(***************************************************************************)
\* the longest issue list a generated model reply carries
MaxIssues == 2

Min(a, b) == IF a < b THEN a ELSE b

(***************************************************************************)
(* Text: white space, String.prototype.trim, String.prototype.slice.       *)
(***************************************************************************)
WhiteSpace == {" ", "\n"}

RECURSIVE TrimStart(_)
TrimStart(s) ==
    IF s # <<>> /\ Head(s) \in WhiteSpace THEN TrimStart(Tail(s)) ELSE s

RECURSIVE TrimEnd(_)
TrimEnd(s) ==
    IF s # <<>> /\ s[Len(s)] \in WhiteSpace
    THEN TrimEnd(SubSeq(s, 1, Len(s) - 1))
    ELSE s

\* s.trim()
Trim(s) == TrimEnd(TrimStart(s))

\* s.slice(0, k) for k >= 0
Slice(s, k) == SubSeq(s, 1, Min(k, Len(s)))

(***************************************************************************)
(* JavaScript values, as JSON.parse yields them and as property access     *)
(* reads them.  One record shape for all of them:                          *)
(*   t : "undefined" | "null" | "num" | "str" | "arr" | "obj"              *)
(*   n : the number (t = "num"), s : the string (t = "str"),               *)
(*   e : the elements (t = "arr") or the members [k, v] in source order    *)
(*       (t = "obj").                                                      *)
(***************************************************************************)
Undefined == [t |-> "undefined", n |-> 0, s |-> "", e |-> <<>>]
Null      == [t |-> "null", n |-> 0, s |-> "", e |-> <<>>]
Num(k)    == [t |-> "num", n |-> k, s |-> "", e |-> <<>>]
Str(x)    == [t |-> "str", n |-> 0, s |-> x, e |-> <<>>]
Arr(es)   == [t |-> "arr", n |-> 0, s |-> "", e |-> es]
Obj(ms)   == [t |-> "obj", n |-> 0, s |-> "", e |-> ms]

\* the members of an object that carry key k
MembersAt(v, k) == { i \in 1..Len(v.e) : v.e[i].k = k }

\* v[k] for a non-nullish v: the last member with that key of an object,
\* undefined on an object without it and on a number, a string or an array
\* (the keys read here are never "length" or an index)
Prop(v, k) ==
    IF v.t = "obj" /\ MembersAt(v, k) # {}
    THEN v.e[CHOOSE i \in MembersAt(v, k) : \A j \in MembersAt(v, k) : j <= i].v
    ELSE Undefined

\* v?.[k]
OptProp(v, k) == IF v.t \in {"undefined", "null"} THEN Undefined ELSE Prop(v, k)

\* Array.isArray(v)
IsArray(v) == v.t = "arr"

(***************************************************************************)
(* JSON.parse over chunks.                                                 *)
(***************************************************************************)
\* the quoted string literals of the alphabet, and the strings they denote
Unquote ==
    ( "\"issues\"" :> "issues" @@ "\"path\"" :> "path" @@ "\"line\"" :> "line"
   @@ "\"severity\"" :> "severity" @@ "\"title\"" :> "title"
   @@ "\"body\"" :> "body" @@ "\"a.ts\"" :> "a.ts" @@ "\"b.ts\"" :> "b.ts"
   @@ "\"P0\"" :> "P0" @@ "\"P1\"" :> "P1" @@ "\"t\"" :> "t" @@ "\"u\"" :> "u"
   @@ "\"x\"" :> "x" @@ "\"y\"" :> "y"
   @@ "\"pull_request\"" :> "pull_request" @@ "\"number\"" :> "number" )

StrLits == DOMAIN Unquote

\* the string literal that denotes x
Quote(x) == CHOOSE q \in StrLits : Unquote[q] = x

\* the digits of the alphabet, and their values
DigitVal == ( "0" :> 0 @@ "1" :> 1 @@ "2" :> 2 @@ "7" :> 7 )

Digits == DOMAIN DigitVal

\* the digit chunk of a one-digit number
DigitOf(k) == CHOOSE d \in Digits : DigitVal[d] = k

ParseFail == [ok |-> FALSE, v |-> Undefined, i |-> 0]

ParseOk(v, i) == [ok |-> TRUE, v |-> v, i |-> i]

\* the first position from i on that holds no JSON white space
RECURSIVE SkipWs(_, _)
SkipWs(s, i) ==
    IF i <= Len(s) /\ s[i] \in WhiteSpace THEN SkipWs(s, i + 1) ELSE i

\* the digits of a number after its first one, read in base ten
RECURSIVE ParseDigits(_, _, _)
ParseDigits(s, i, acc) ==
    IF i <= Len(s) /\ s[i] \in Digits
    THEN ParseDigits(s, i + 1, 10 * acc + DigitVal[s[i]])
    ELSE ParseOk(Num(acc), i)

\* a number at position i (a digit): "0" alone, or a run of digits that
\* does not start with "0"
ParseNumber(s, i) ==
    IF s[i] = "0" THEN ParseOk(Num(0), i + 1) ELSE ParseDigits(s, i, 0)

RECURSIVE ParseValue(_, _)
RECURSIVE ParseElements(_, _, _)
RECURSIVE ParseMembers(_, _, _)

\* the elements of an array after "[" or ",": value, then "," or "]"
ParseElements(s, i, acc) ==
    LET r == ParseValue(s, i) IN
    IF ~r.ok THEN ParseFail
    ELSE LET j == SkipWs(s, r.i) IN
         IF j > Len(s) THEN ParseFail
         ELSE IF s[j] = "," THEN ParseElements(s, j + 1, Append(acc, r.v))
         ELSE IF s[j] = "]" THEN ParseOk(Arr(Append(acc, r.v)), j + 1)
         ELSE ParseFail

\* the members of an object after "{" or ",": string, ":", value, then "," or "}"
ParseMembers(s, i, acc) ==
    LET k == SkipWs(s, i) IN
    IF k > Len(s) \/ s[k] \notin StrLits THEN ParseFail
    ELSE LET c == SkipWs(s, k + 1) IN
         IF c > Len(s) \/ s[c] # ":" THEN ParseFail
         ELSE LET r == ParseValue(s, c + 1) IN
              IF ~r.ok THEN ParseFail
              ELSE LET j == SkipWs(s, r.i)
                       m == Append(acc, [k |-> Unquote[s[k]], v |-> r.v])
                   IN  IF j > Len(s) THEN ParseFail
                       ELSE IF s[j] = "," THEN ParseMembers(s, j + 1, m)
                       ELSE IF s[j] = "}" THEN ParseOk(Obj(m), j + 1)
                       ELSE ParseFail

\* one JSON value from position i on, white space before it skipped
ParseValue(s, i) ==
    LET j == SkipWs(s, i) IN
    IF j > Len(s) THEN ParseFail
    ELSE IF s[j] = "null" THEN ParseOk(Null, j + 1)
    ELSE IF s[j] \in Digits THEN ParseNumber(s, j)
    ELSE IF s[j] \in StrLits THEN ParseOk(Str(Unquote[s[j]]), j + 1)
    ELSE IF s[j] = "["
         THEN LET k == SkipWs(s, j + 1) IN
              IF k <= Len(s) /\ s[k] = "]" THEN ParseOk(Arr(<<>>), k + 1)
              ELSE ParseElements(s, j + 1, <<>>)
    ELSE IF s[j] = "{"
         THEN LET k == SkipWs(s, j + 1) IN
              IF k <= Len(s) /\ s[k] = "}" THEN ParseOk(Obj(<<>>), k + 1)
              ELSE ParseMembers(s, j + 1, <<>>)
    ELSE ParseFail

\* JSON.parse(s): [ok |-> FALSE] stands for the SyntaxError it throws
JsonParse(s) ==
    LET r == ParseValue(s, 1) IN
    IF r.ok /\ SkipWs(s, r.i) = Len(s) + 1 THEN r ELSE ParseFail

(***************************************************************************)
(* rawReview.match(/\{[\s\S]*\}/)?.[0] ?? rawReview                        *)
(***************************************************************************)
BracePositions(s, b) == { i \in 1..Len(s) : s[i] = b }

\* the greedy match: from the first "{" to the last "}" after it
HasBraceMatch(s) ==
    \E i \in BracePositions(s, "{") : \E j \in BracePositions(s, "}") : i < j

FirstOpen(s) ==
    CHOOSE i \in BracePositions(s, "{") : \A k \in BracePositions(s, "{") : i <= k

LastClose(s) ==
    CHOOSE j \in BracePositions(s, "}") : \A k \in BracePositions(s, "}") : k <= j

JsonStr(rawReview) ==
    IF HasBraceMatch(rawReview)
    THEN SubSeq(rawReview, FirstOpen(rawReview), LastClose(rawReview))
    ELSE rawReview

(***************************************************************************)
(* Diffs: run-length encoded strings.                                      *)
(***************************************************************************)
RECURSIVE RunsLen(_)
\* diff.length
RunsLen(d) == IF d = <<>> THEN 0 ELSE Head(d).n + RunsLen(Tail(d))

RECURSIVE RunsSlice(_, _)
\* diff.slice(0, k) for k >= 0
RunsSlice(d, k) ==
    IF d = <<>> \/ k = 0 THEN <<>>
    ELSE IF Head(d).n <= k THEN <<Head(d)>> \o RunsSlice(Tail(d), k - Head(d).n)
    ELSE <<[c |-> Head(d).c, n |-> k]>>

\* !diff.trim(): nothing but white space
RunsBlank(d) == \A i \in 1..Len(d) : d[i].c \in WhiteSpace

\* the runs of a string given character by character
RunsOf(chars) == [i \in 1..Len(chars) |-> [c |-> chars[i], n |-> 1]]

\* "(No file changes in this PR)"
NoFileChanges ==
    RunsOf(<<"(", "N", "o", " ", "f", "i", "l", "e", " ", "c", "h", "a", "n",
             "g", "e", "s", " ", "i", "n", " ", "t", "h", "i", "s", " ", "P",
             "R", ")">>)

\* the length of the dry-run preview
PreviewLimit == 2000

\* the most characters of the diff sent to the model
DiffCap == 100000

\* the length of the abbreviated commit id
ShortShaLen == 9

(***************************************************************************)
(* Environment variables: unset, or set to a Text (possibly empty).        *)
(***************************************************************************)
EnvUnset == [set |-> FALSE, v |-> <<>>]

EnvSet(text) == [set |-> TRUE, v |-> text]

\* a variant of Falsy that takes an empty string for a value
FalsyOnlyUnset(e) == ~e.set

\* !process.env.X
Falsy(e) == ~e.set \/ e.v = <<>>

\* !v for a JavaScript value
ValueFalsy(v) ==
    \/ v.t \in {"undefined", "null"}
    \/ v.t = "num" /\ v.n = 0
    \/ v.t = "str" /\ v.s = ""

(***************************************************************************)
(* Errors and console output.                                              *)
(***************************************************************************)
Err(message, detail) == [message |-> message, detail |-> detail]

Log(stream, msg, arg) == [stream |-> stream, msg |-> msg, arg |-> arg]

(***************************************************************************)
(* getReviewFromGlm: the text of the model out of a response body.         *)
(*   A field of the message is missing, null, or a string.                 *)
(***************************************************************************)
FieldMissing == [st |-> "missing", v |-> <<>>]

FieldNull == [st |-> "null", v |-> <<>>]

FieldStr(text) == [st |-> "str", v |-> text]

Separator == "\n\n---\n\n"

\* a variant of OptTrim that forgets to trim
OptTrimUntrimmed(hasMsg, f) ==
    IF hasMsg /\ f.st = "str"
    THEN [ok |-> TRUE, v |-> f.v]
    ELSE [ok |-> FALSE, v |-> <<>>]

\* msg?.content?.trim(): undefined for a missing or null field
\* ([ok |-> FALSE]), else the trimmed string
OptTrim(hasMsg, f) ==
    IF hasMsg /\ f.st = "str"
    THEN [ok |-> TRUE, v |-> Trim(f.v)]
    ELSE [ok |-> FALSE, v |-> <<>>]

\* a trimmed field is used when it is a non-empty string
TruthyText(o) == o.ok /\ o.v # <<>>

\* data.choices?.[0]?.message: is there one
HasMessage(data) ==
    data.hasChoices /\ Len(data.choices) > 0 /\ data.choices[1].hasMessage

MessageOf(data) == data.choices[1].message

\* Object.keys(message)
MessageKeys(m) ==
    (IF m.content.st # "missing" THEN <<"content">> ELSE <<>>)
    \o (IF m.reasoning_content.st # "missing"
        THEN <<"reasoning_content">> ELSE <<>>)

\* the structure logged when the response holds no text
Structure(data) ==
    [hasChoices |-> data.hasChoices,
     choicesLen |-> IF data.hasChoices THEN Len(data.choices) ELSE 0,
     hasFirstChoice |-> data.hasChoices /\ Len(data.choices) > 0,
     hasMessage |-> HasMessage(data),
     messageKeys |-> IF HasMessage(data) THEN MessageKeys(MessageOf(data))
                     ELSE <<>>]

\* lines 134-163: [ok |-> TRUE, text] or [ok |-> FALSE, err]
ExtractText(data) ==
    LET has       == HasMessage(data)
        content   == OptTrim(has, IF has THEN MessageOf(data).content
                                  ELSE FieldMissing)
        reasoning == OptTrim(has, IF has THEN MessageOf(data).reasoning_content
                                  ELSE FieldMissing)
        none      == Err("", <<>>)
    IN  IF TruthyText(content)
        THEN [ok |-> TRUE, err |-> none,
              text |-> IF TruthyText(reasoning)
                       THEN reasoning.v \o <<Separator>> \o content.v
                       ELSE content.v]
        ELSE IF TruthyText(reasoning)
        THEN [ok |-> TRUE, err |-> none, text |-> reasoning.v]
        ELSE [ok |-> FALSE, text |-> <<>>,
              err |-> Err("No review content in Z.AI response. Response structure:",
                          Structure(data))]

\* lines 113-164: what getReviewFromGlm makes of the response to its POST
GlmResult(resp) ==
    IF ~resp.ok
    THEN [ok |-> FALSE, text |-> <<>>, err |-> Err("Z.AI API error (status)", resp.status)]
    ELSE IF ~resp.bodyIsJson
    THEN [ok |-> FALSE, text |-> <<>>, err |-> Err("SyntaxError (response.json)", 0)]
    ELSE IF resp.data.error
    THEN [ok |-> FALSE, text |-> <<>>, err |-> Err("Z.AI API error (error)", 0)]
    ELSE IF resp.data.code # 0 /\ resp.data.code # 200
    THEN [ok |-> FALSE, text |-> <<>>, err |-> Err("Z.AI API error (code)", resp.data.code)]
    ELSE ExtractText(resp.data)

\* a variant of UserDiff that sends the whole diff
UserDiffUncut(d) == d

\* line 104: diff.slice(0, 100_000), the diff embedded in the user message
UserDiff(d) == RunsSlice(d, DiffCap)

\* lines 92-111: the request sent to the chat-completions endpoint
GlmRequest(key, d) ==
    [url |-> "https://api.z.ai/api/paas/v4/chat/completions",
     method |-> "POST",
     authorization |-> <<"Bearer ">> \o key,
     model |-> "glm-4.7-flash",
     system |-> "SYSTEM_PROMPT",
     userDiff |-> UserDiff(d)]

(***************************************************************************)
(* main, lines 300-317: the interpretation of the reply.                   *)
(***************************************************************************)
\* a variant of Interpret that takes a reply without a list-shaped issues
\* field for a parse failure
InterpretStrict(rawReview) ==
    LET r == JsonParse(JsonStr(rawReview)) IN
    IF ~r.ok \/ ~IsArray(OptProp(r.v, "issues"))
    THEN [parseFailed |-> TRUE, issues |-> <<>>]
    ELSE [parseFailed |-> FALSE, issues |-> OptProp(r.v, "issues").e]

\* lines 300-309: [parseFailed, issues]
Interpret(rawReview) ==
    LET r == JsonParse(JsonStr(rawReview)) IN
    IF ~r.ok THEN [parseFailed |-> TRUE, issues |-> <<>>]
    ELSE LET field == OptProp(r.v, "issues") IN
         [parseFailed |-> FALSE,
          issues |-> IF IsArray(field) THEN field.e ELSE <<>>]

\* reading a property of an element throws a TypeError on null
\* (line 317 in main, line 199 in postCodexReview)
HasNullish(issues) ==
    \E k \in 1..Len(issues) : issues[k].t \in {"null", "undefined"}

\* line 317: the elements forEach has printed before it reaches the first
\* null
BeforeNullish(issues) ==
    LET first == CHOOSE k \in 1..Len(issues) :
                    /\ issues[k].t \in {"null", "undefined"}
                    /\ \A j \in 1..(k - 1) : issues[j].t \notin {"null", "undefined"}
    IN SubSeq(issues, 1, first - 1)

(***************************************************************************)
(* The publishers.                                                         *)
(***************************************************************************)
\* the chunks of a number in base ten, for the values the model reads
RECURSIVE NumText(_)
NumText(k) ==
    IF k < 10 THEN <<DigitOf(k)>> ELSE NumText(k \div 10) \o <<DigitOf(k % 10)>>

\* `${v}` for an undefined, null, number or string v
TemplateText(v) ==
    IF v.t = "str" THEN <<v.s>>
    ELSE IF v.t = "num" THEN NumText(v.n)
    ELSE IF v.t = "null" THEN <<"null">>
    ELSE IF v.t = "undefined" THEN <<"undefined">>
    ELSE <<"[object Object]">>

\* a variant of CommentOf that anchors the comment to the old side of the diff
CommentOfLeft(i) ==
    [path |-> Prop(i, "path"),
     line |-> Prop(i, "line"),
     side |-> "LEFT",
     body |-> <<"**">> \o TemplateText(Prop(i, "severity")) \o <<"** ">>
              \o TemplateText(Prop(i, "title")) \o <<"\n\n">>
              \o TemplateText(Prop(i, "body"))]

\* lines 198-203: one inline comment
CommentOf(i) ==
    [path |-> Prop(i, "path"),
     line |-> Prop(i, "line"),
     side |-> "RIGHT",
     body |-> <<"**">> \o TemplateText(Prop(i, "severity")) \o <<"** ">>
              \o TemplateText(Prop(i, "title")) \o <<"\n\n">>
              \o TemplateText(Prop(i, "body"))]

\* issues.map(...)
Comments(issues) == [k \in 1..Len(issues) |-> CommentOf(issues[k])]

Backtick == "<backtick>"

NoCriticalIssues == "\n\nNo critical issues found. (check)"

\* lines 192-196
MainBody(shortSha) ==
    <<"(bulb) Codex Review\n\nHere are some automated review suggestions for this pull request.\n\n**Reviewed commit:** ",
      Backtick>> \o shortSha \o <<Backtick>>

\* line 205
StructuredBody(issues, shortSha) ==
    IF Len(issues) > 0 THEN MainBody(shortSha)
    ELSE MainBody(shortSha) \o <<NoCriticalIssues>>

\* lines 250-258
FallbackBody(rawBody, shortSha) ==
    MainBody(shortSha) \o <<Separator>> \o rawBody

\* repo.split("/")
RECURSIVE SplitSlash(_, _)
SplitSlash(s, cur) ==
    IF s = <<>> THEN <<cur>>
    ELSE IF Head(s) = "/" THEN <<cur>> \o SplitSlash(Tail(s), <<>>)
    ELSE SplitSlash(Tail(s), Append(cur, Head(s)))

\* const [owner, repoName] = repo.split("/")
OwnerAndName(repo) ==
    LET parts == SplitSlash(repo, <<>>) IN
    [owner |-> parts[1],
     repoName |-> IF Len(parts) >= 2 THEN parts[2] ELSE <<"undefined">>]

\* lines 178-181 and 236-239: the pull-request number out of the event
\* payload; [ok |-> FALSE] when reading or parsing throws, or when the
\* payload is null (a property of null is read)
PrNumber(eventPath, file) ==
    IF Falsy(eventPath) THEN [ok |-> TRUE, v |-> Null]
    ELSE IF ~file.readable THEN [ok |-> FALSE, v |-> Undefined]
    ELSE LET r == JsonParse(file.text) IN
         IF ~r.ok \/ r.v.t = "null" THEN [ok |-> FALSE, v |-> Undefined]
         ELSE [ok |-> TRUE, v |-> OptProp(Prop(r.v, "pull_request"), "number")]

\* lines 183 and 241
MissingPrerequisite(token, repo, prNumber) ==
    Falsy(token) \/ Falsy(repo) \/ ValueFalsy(prNumber)

\* lines 168-173: GITHUB_SHA when set, else the trimmed output of
\* git rev-parse HEAD, whose exit status is not read
GetCommitSha(sha, revParse) ==
    IF ~Falsy(sha) THEN sha.v ELSE Trim(revParse.stdout)

\* lines 207-224 and 260-277: the review-creation request
ReviewRequest(token, repo, prNumber, commitId, body, comments) ==
    [url |-> [owner |-> OwnerAndName(repo).owner,
              repoName |-> OwnerAndName(repo).repoName,
              pull |-> prNumber],
     method |-> "POST",
     authorization |-> <<"Bearer ">> \o token,
     commit_id |-> commitId,
     body |-> body,
     event |-> "COMMENT",
     comments |-> comments]

(***************************************************************************)
(* The inputs of a run: what the commands, the files, the environment and  *)
(* the two remote services may answer.                                     *)
(***************************************************************************)
GitExitCodes == {0, 1, 128}

\* the standard output of git diff HEAD~1 HEAD
GitDiffOutputs ==
    { <<>>,
      <<[c |-> "\n", n |-> 2]>>,
      <<[c |-> "+", n |-> 1]>>,
      <<[c |-> "+", n |-> PreviewLimit - 1]>>,
      <<[c |-> "+", n |-> PreviewLimit]>>,
      <<[c |-> "+", n |-> PreviewLimit], [c |-> "-", n |-> 1]>>,
      <<[c |-> "+", n |-> DiffCap]>>,
      <<[c |-> "+", n |-> DiffCap - 1], [c |-> "-", n |-> 5]>>,
      <<[c |-> "+", n |-> DiffCap], [c |-> "-", n |-> 1]>> }

ApiKeys == { EnvUnset, EnvSet(<<>>), EnvSet(<<"zai-key">>) }

\* two well-typed issues
IssueA == [path |-> "a.ts", line |-> 1, severity |-> "P1", title |-> "t", body |-> "x"]

IssueB == [path |-> "b.ts", line |-> 2, severity |-> "P0", title |-> "u", body |-> "y"]

\* the JSON text of an issue
IssueText(i) ==
    <<"{", "\"path\"", ":", Quote(i.path), ",", "\"line\"", ":", DigitOf(i.line),
      ",", "\"severity\"", ":", Quote(i.severity), ",", "\"title\"", ":",
      Quote(i.title), ",", " ", "\"body\"", ":", Quote(i.body), "}">>

\* the value JSON.parse makes of that text
IssueValue(i) ==
    Obj(<<[k |-> "path", v |-> Str(i.path)], [k |-> "line", v |-> Num(i.line)],
          [k |-> "severity", v |-> Str(i.severity)],
          [k |-> "title", v |-> Str(i.title)], [k |-> "body", v |-> Str(i.body)]>>)

\* the elements a generated issue list is made of: issues, null, a number
ElementTexts == { IssueText(IssueA), IssueText(IssueB), <<"null">>, <<"1">> }

ElementLists == UNION { [1..n -> ElementTexts] : n \in 0..MaxIssues }

RECURSIVE JoinComma(_)
JoinComma(es) ==
    IF es = <<>> THEN <<>>
    ELSE IF Len(es) = 1 THEN es[1]
    ELSE es[1] \o <<",">> \o JoinComma(Tail(es))

\* {"issues":[ ... ]}
IssuesDoc(es) == <<"{", "\"issues\"", ":", "[">> \o JoinComma(es) \o <<"]", "}">>

IssuesDocs == { IssuesDoc(es) : es \in ElementLists }

\* valid JSON without a list-shaped issues field
OtherDocs ==
    { <<"{", "}">>, <<"null">>, <<"1">>, <<"[", "]">>, <<"\"x\"">>,
      <<"{", "\"issues\"", ":", "null", "}">>,
      <<"{", "\"issues\"", ":", "1", "}">>,
      <<"{", "\"issues\"", ":", "{", "}", "}">>,
      <<"{", "\"title\"", ":", "\"t\"", "}">> }

\* text that is not JSON
Malformed ==
    { <<"w">>, <<"{">>, <<"{", "w", "}">>, <<"w", " ", "w">>,
      <<"{", "\"issues\"", ":", "[">>,
      <<"{", "\"issues\"", ":", "[", "1", ",", "]", "}">> }

\* prose around an embedded object, without and with brace characters
Prefixes == { <<>>, <<"w", " ">>, <<"w", "{", "w", "}", "\n">> }

Suffixes == { <<>>, <<" ", "w">>, <<" ", "{", "w", "}">> }

EmbeddedCores == { IssuesDoc(<<>>), IssuesDoc(<<IssueText(IssueA)>>) }

Embedded ==
    { pre \o core \o post : pre \in Prefixes, core \in EmbeddedCores,
                            post \in Suffixes }

Contents == IssuesDocs \cup OtherDocs \cup Malformed \cup Embedded

\* the content fields tried together with every reasoning field
FewContentFields ==
    { FieldMissing, FieldNull, FieldStr(<<>>), FieldStr(<<" ", "\n">>),
      FieldStr(<<" ", "w", " ">>), FieldStr(IssuesDoc(<<>>)),
      FieldStr(<<"\n">> \o IssuesDoc(<<IssueText(IssueB)>>) \o <<" ">>) }

ReasoningFields ==
    { FieldMissing, FieldNull, FieldStr(<<>>), FieldStr(<<"\n", " ">>),
      FieldStr(<<"w">>), FieldStr(<<" ", "w", " ", "w", "\n">>),
      FieldStr(<<"w", "{", "w", "}">>) }

Messages ==
    { [content |-> FieldStr(c), reasoning_content |-> FieldMissing] : c \in Contents }
    \cup { [content |-> c, reasoning_content |-> r] :
             c \in FewContentFields, r \in ReasoningFields }

NoMessage == [content |-> FieldMissing, reasoning_content |-> FieldMissing]

Choice(m) == [hasMessage |-> TRUE, message |-> m]

Data(error, code, hasChoices, choices) ==
    [error |-> error, code |-> code, hasChoices |-> hasChoices, choices |-> choices]

NoData == Data(FALSE, 0, FALSE, <<>>)

\* the responses of the chat-completions endpoint
Responses ==
    { [ok |-> FALSE, status |-> 500, bodyIsJson |-> TRUE, data |-> NoData],
      [ok |-> TRUE, status |-> 200, bodyIsJson |-> FALSE, data |-> NoData],
      [ok |-> TRUE, status |-> 200, bodyIsJson |-> TRUE, data |-> NoData],
      [ok |-> TRUE, status |-> 200, bodyIsJson |-> TRUE,
       data |-> Data(TRUE, 0, FALSE, <<>>)],
      [ok |-> TRUE, status |-> 200, bodyIsJson |-> TRUE,
       data |-> Data(FALSE, 1301, FALSE, <<>>)],
      [ok |-> TRUE, status |-> 200, bodyIsJson |-> TRUE,
       data |-> Data(FALSE, 0, TRUE, <<>>)],
      [ok |-> TRUE, status |-> 200, bodyIsJson |-> TRUE,
       data |-> Data(FALSE, 0, TRUE,
                     <<[hasMessage |-> FALSE, message |-> NoMessage]>>)],
      [ok |-> TRUE, status |-> 200, bodyIsJson |-> TRUE,
       data |-> Data(FALSE, 200, TRUE,
                     <<Choice([content |-> FieldStr(<<"w">>),
                               reasoning_content |-> FieldNull]),
                       Choice(NoMessage)>>)] }
    \cup { [ok |-> TRUE, status |-> 200, bodyIsJson |-> TRUE,
            data |-> Data(FALSE, 0, TRUE, <<Choice(m)>>)] : m \in Messages }

Tokens == { EnvUnset, EnvSet(<<"ghs_token">>) }

Repos == { EnvUnset, EnvSet(<<"octo", "/", "sloth">>) }

EventPaths == { EnvUnset, EnvSet(<<"/github/event.json">>) }

NoFile == [readable |-> FALSE, text |-> <<>>]

\* the event payload file: unreadable, not JSON, JSON null, without
\* pull_request, without number, number 0, number 7
EventFiles ==
    { NoFile,
      [readable |-> TRUE, text |-> <<"w">>],
      [readable |-> TRUE, text |-> <<"null">>],
      [readable |-> TRUE, text |-> <<"{", "}">>],
      [readable |-> TRUE, text |-> <<"{", "\"pull_request\"", ":", "{", "}", "}">>],
      [readable |-> TRUE,
       text |-> <<"{", "\"pull_request\"", ":", "{", "\"number\"", ":", "0", "}", "}">>],
      [readable |-> TRUE,
       text |-> <<"{", "\"pull_request\"", ":", "{", "\"number\"", ":", "7", "}", "}", "\n">>] }

HeadSha == <<"a", "b", "c", "d", "e", "f", "0", "1", "2", "3", "4">>

Shas == { EnvUnset, EnvSet(HeadSha) }

NoRevParse == [exit |-> 0, stdout |-> <<>>]

\* git rev-parse HEAD: the commit id and a newline, or a failure that
\* prints nothing on standard output
RevParses ==
    { [exit |-> 0, stdout |-> HeadSha \o <<"\n">>],
      [exit |-> 128, stdout |-> <<>>] }

\* the responses of the review-creation endpoint
GhResponses == { [ok |-> TRUE, status |-> 200], [ok |-> FALSE, status |-> 422] }

(***************************************************************************)
(* The state of one run of the script.                                     *)
(***************************************************************************)
VARIABLES
    pc,          \* where main stands: "main", "diffed", "reviewed",
                 \* "structured", "fallback", "exited"
    isDryRun,    \* process.argv.includes("--dry-run")
    diff,        \* main's diff
    rawReview,   \* main's rawReview
    parseFailed, \* main's parseFailed
    issues,      \* main's issues
    called,      \* the functions main has called, in order
    env,         \* the environment variables and files read so far
    vcs,         \* the git commands run so far, with their exit codes
    llmCalls,    \* the requests sent to the chat-completions endpoint
    llmReplies,  \* the responses received from it
    ghPosts,     \* the requests sent to the review-creation endpoint
    log,         \* the console output
    thrown,      \* the errors main().catch has received
    exitCode     \* the exit status, once pc = "exited"

vars == <<pc, isDryRun, diff, rawReview, parseFailed, issues, called, env, vcs,
          llmCalls, llmReplies, ghPosts, log, thrown, exitCode>>

Init ==
    /\ pc = "main"
    /\ isDryRun \in BOOLEAN
    /\ diff = <<>>
    /\ rawReview = <<>>
    /\ parseFailed = FALSE
    /\ issues = <<>>
    /\ called = <<>>
    /\ env = <<>>
    /\ vcs = <<>>
    /\ llmCalls = <<>>
    /\ llmReplies = <<>>
    /\ ghPosts = <<>>
    /\ log = <<>>
    /\ thrown = <<>>
    /\ exitCode = 0

\* a variant of Catch that logs the error and lets the process end with
\* status 0
CatchExitZero(lg, err) ==
    /\ pc' = "exited"
    /\ log' = Append(lg, Log("error", "uncaught", err))
    /\ thrown' = Append(thrown, err)
    /\ exitCode' = 0

\* lines 325-328: main().catch logs the error and exits with status 1
Catch(lg, err) ==
    /\ pc' = "exited"
    /\ log' = Append(lg, Log("error", "uncaught", err))
    /\ thrown' = Append(thrown, err)
    /\ exitCode' = 1

\* main returns: the process ends with status 0
Return(lg) ==
    /\ pc' = "exited"
    /\ log' = lg
    /\ exitCode' = 0
    /\ UNCHANGED thrown

\* lines 285-287 and 65-84
GetPrDiff ==
    /\ pc = "main"
    /\ \E code \in GitExitCodes, out \in GitDiffOutputs :
         LET lg == Append(log, Log("log", "Fetching PR diff...", 0)) IN
         /\ called' = Append(called, "getPrDiff")
         /\ vcs' = Append(vcs, [cmd |-> "diff", exit |-> code])
         /\ IF code # 0
            THEN /\ Catch(Append(lg, Log("error", "git diff stderr:", 0)),
                          Err("git diff failed with code", code))
                 /\ UNCHANGED diff
            ELSE /\ diff' = IF RunsBlank(out) THEN NoFileChanges ELSE out
                 /\ log' = Append(lg, Log("log", "Diff length:", RunsLen(diff')))
                 /\ pc' = "diffed"
                 /\ UNCHANGED <<thrown, exitCode>>
    /\ UNCHANGED <<isDryRun, rawReview, parseFailed, issues, env, llmCalls,
                   llmReplies, ghPosts>>

\* line 291: diff.slice(0, 2000)
Preview(d) == RunsSlice(d, PreviewLimit)

\* a variant of PreviewTruncated that is off by one
PreviewTruncatedAtLimit(d) == RunsLen(d) >= PreviewLimit

\* line 292: diff.length > 2000
PreviewTruncated(d) == RunsLen(d) > PreviewLimit

\* lines 289-295
DryRun ==
    /\ pc = "diffed"
    /\ isDryRun
    /\ LET l1 == Append(log, Log("log", "--- Diff preview (first 2000 chars) ---", 0))
           l2 == Append(l1, Log("log", "preview", Preview(diff)))
           l3 == IF PreviewTruncated(diff)
                 THEN Append(l2, Log("log", "... (truncated)", 0))
                 ELSE l2
       IN  Return(Append(l3, Log("log", "Dry run complete.", 0)))
    /\ UNCHANGED <<isDryRun, diff, rawReview, parseFailed, issues, called, env,
                   vcs, llmCalls, llmReplies, ghPosts>>

\* lines 297-298 and 86-164
GetReviewFromGlm ==
    /\ pc = "diffed"
    /\ ~isDryRun
    /\ \E key \in ApiKeys :
         LET lg == Append(log, Log("log", "Sending to Z.AI GLM for review...", 0)) IN
         /\ called' = Append(called, "getReviewFromGlm")
         /\ env' = Append(env, [name |-> "Z_AI_API_KEY", value |-> key])
         /\ IF Falsy(key)
            THEN /\ Catch(lg, Err("Z_AI_API_KEY secret is not set.", 0))
                 /\ UNCHANGED <<rawReview, llmCalls, llmReplies>>
            ELSE \E resp \in Responses :
                   LET r == GlmResult(resp) IN
                   /\ llmCalls' = Append(llmCalls, GlmRequest(key.v, diff))
                   /\ llmReplies' = Append(llmReplies, resp)
                   /\ IF r.ok
                      THEN /\ rawReview' = r.text
                           /\ pc' = "reviewed"
                           /\ log' = lg
                           /\ UNCHANGED <<thrown, exitCode>>
                      ELSE /\ Catch(lg, r.err)
                           /\ UNCHANGED rawReview
    /\ UNCHANGED <<isDryRun, diff, parseFailed, issues, vcs, ghPosts>>

\* lines 300-319: the reply is interpreted and a publisher chosen
InterpretReply ==
    /\ pc = "reviewed"
    /\ LET r == Interpret(rawReview) IN
       /\ parseFailed' = r.parseFailed
       /\ issues' = r.issues
       /\ IF r.parseFailed
          THEN /\ log' = Append(log, Log("warn", "Could not parse LLM JSON, posting raw review in body", 0))
               /\ pc' = "fallback"
               /\ UNCHANGED <<thrown, exitCode>>
          ELSE LET lg == Append(log, Log("log", "Found issue(s):", Len(r.issues))) IN
               IF HasNullish(r.issues)
               THEN LET printed == BeforeNullish(r.issues) IN
                    Catch(IF printed = <<>> THEN lg
                          ELSE Append(lg, Log("log", "issue lines", printed)),
                          Err("TypeError: null is not an object (i.severity)", 0))
               ELSE /\ log' = Append(Append(lg, Log("log", "issue lines", r.issues)),
                                     Log("log", "Posting review to PR...", 0))
                    /\ pc' = "structured"
                    /\ UNCHANGED <<thrown, exitCode>>
    /\ UNCHANGED <<isDryRun, diff, rawReview, called, env, vcs, llmCalls,
                   llmReplies, ghPosts>>

\* what a publisher has read when it checks its prerequisites
Prerequisites(token, repo, eventPath, file) ==
    <<[name |-> "GITHUB_TOKEN", value |-> token],
      [name |-> "GITHUB_REPOSITORY", value |-> repo],
      [name |-> "GITHUB_EVENT_PATH", value |-> eventPath]>>
    \o (IF Falsy(eventPath) THEN <<>> ELSE <<[name |-> "event file", value |-> file]>>)

\* lines 320-322 and 175-231
PostCodexReview ==
    /\ pc = "structured"
    /\ called' = Append(called, "postCodexReview")
    /\ \E token \in Tokens, repo \in Repos, eventPath \in EventPaths :
       \E file \in (IF Falsy(eventPath) THEN {NoFile} ELSE EventFiles) :
         LET pr   == PrNumber(eventPath, file)
             read == env \o Prerequisites(token, repo, eventPath, file)
         IN
         IF ~pr.ok
         THEN /\ Catch(log, Err("reading the event payload failed", 0))
              /\ env' = read
              /\ UNCHANGED <<vcs, ghPosts>>
         ELSE IF MissingPrerequisite(token, repo, pr.v)
         THEN /\ Return(Append(Append(log,
                     Log("error", "Missing GITHUB_TOKEN, GITHUB_REPOSITORY, or PR number. Skipping review.", 0)),
                     Log("log", "Done.", 0)))
              /\ env' = read
              /\ UNCHANGED <<vcs, ghPosts>>
         ELSE \E sha \in Shas :
              \E rp \in (IF Falsy(sha) THEN RevParses ELSE {NoRevParse}) :
              \E res \in GhResponses :
                LET commitId == GetCommitSha(sha, rp)
                    shortSha == Slice(commitId, ShortShaLen)
                IN
                /\ env' = Append(read, [name |-> "GITHUB_SHA", value |-> sha])
                /\ vcs' = IF Falsy(sha)
                          THEN Append(vcs, [cmd |-> "rev-parse", exit |-> rp.exit])
                          ELSE vcs
                /\ IF HasNullish(issues)
                   THEN /\ Catch(log, Err("TypeError: null is not an object (i.path)", 0))
                        /\ UNCHANGED ghPosts
                   ELSE /\ ghPosts' = Append(ghPosts,
                              ReviewRequest(token.v, repo.v, pr.v, commitId,
                                            StructuredBody(issues, shortSha),
                                            Comments(issues)))
                        /\ IF ~res.ok
                           THEN Catch(log, Err("GitHub API error", res.status))
                           ELSE Return(Append(Append(log,
                                    Log("log", "Posted review with line comment(s):", Len(issues))),
                                    Log("log", "Done.", 0)))
    /\ UNCHANGED <<isDryRun, diff, rawReview, parseFailed, issues, llmCalls,
                   llmReplies>>

\* a variant of AfterFallback without the return of line 313: main goes on
\* to the structured publisher
AfterFallbackFallsThrough(lg) ==
    /\ pc' = "structured"
    /\ log' = lg
    /\ UNCHANGED <<thrown, exitCode>>

\* lines 312-313: main returns once the fallback publisher has
AfterFallback(lg) == Return(lg)

\* lines 311-314 and 233-280
PostCodexReviewWithFallback ==
    /\ pc = "fallback"
    /\ called' = Append(called, "postCodexReviewWithFallback")
    /\ \E token \in Tokens, repo \in Repos, eventPath \in EventPaths :
       \E file \in (IF Falsy(eventPath) THEN {NoFile} ELSE EventFiles) :
         LET pr   == PrNumber(eventPath, file)
             read == env \o Prerequisites(token, repo, eventPath, file)
         IN
         IF ~pr.ok
         THEN /\ Catch(log, Err("reading the event payload failed", 0))
              /\ env' = read
              /\ UNCHANGED <<vcs, ghPosts>>
         ELSE IF MissingPrerequisite(token, repo, pr.v)
         THEN /\ AfterFallback(Append(log,
                     Log("error", "Missing GITHUB_TOKEN, GITHUB_REPOSITORY, or PR number. Skipping.", 0)))
              /\ env' = read
              /\ UNCHANGED <<vcs, ghPosts>>
         ELSE \E sha \in Shas :
              \E rp \in (IF Falsy(sha) THEN RevParses ELSE {NoRevParse}) :
              \E res \in GhResponses :
                LET commitId == GetCommitSha(sha, rp)
                    shortSha == Slice(commitId, ShortShaLen)
                IN
                /\ env' = Append(read, [name |-> "GITHUB_SHA", value |-> sha])
                /\ vcs' = IF Falsy(sha)
                          THEN Append(vcs, [cmd |-> "rev-parse", exit |-> rp.exit])
                          ELSE vcs
                /\ ghPosts' = Append(ghPosts,
                       ReviewRequest(token.v, repo.v, pr.v, commitId,
                                     FallbackBody(rawReview, shortSha), <<>>))
                /\ IF ~res.ok
                   THEN Catch(log, Err("GitHub API error", res.status))
                   ELSE AfterFallback(Append(log,
                            Log("log", "Posted review (fallback, no line comments)", 0)))
    /\ UNCHANGED <<isDryRun, diff, rawReview, parseFailed, issues, llmCalls,
                   llmReplies>>

\* lines 282-328: one run of main
(***************************************************************************)
(* The client's mobile store (src/client/src/lib/store.ts) and the hook    *)
(* useIsMobile (src/unnamed/part_002).                                     *)
(***************************************************************************)
\* the components that may use the hook
MaxComponents == 2
\* how many times init may be called
MaxInitCalls == 3
\* how many change events may wait for delivery, and how many are delivered
MaxEvents == 2

\* store.ts line 3
MOBILE_BREAKPOINT == 768

Components == 1..MaxComponents

\* the widths a window takes, on both sides of the breakpoint and next to it
Widths == {320, MOBILE_BREAKPOINT - 1, MOBILE_BREAKPOINT, 1024}

\* the media query of line 40, (max-width: ${MOBILE_BREAKPOINT - 1}px)
Matches(w) == w <= MOBILE_BREAKPOINT - 1

\* lines 42 and 45: window.innerWidth < MOBILE_BREAKPOINT
BelowBreakpoint(w) == w < MOBILE_BREAKPOINT

VARIABLES
    mobileListenerInitialized, \* the module's flag of line 31
    isMobile,        \* the store's state
    listeners,       \* how many times onChange is registered on the query
    hasWindow,       \* typeof window # 'undefined'
    innerWidth,      \* window.innerWidth
    mounted,         \* the components whose effect has run
    initCalls,       \* history: the calls of init
    pending,         \* change events of the media query not yet delivered
    delivered,       \* history: the change events delivered
    direct           \* history: setMobile was called

mobileVars == <<mobileListenerInitialized, isMobile, listeners, hasWindow,
                innerWidth, mounted, initCalls, pending, delivered, direct>>

\* lines 31-35: the module as loaded, nothing mounted, nothing called
StoreCreated ==
    /\ mobileListenerInitialized = FALSE
    /\ isMobile = FALSE
    /\ listeners = 0
    /\ mounted = {}
    /\ initCalls = 0
    /\ pending = 0
    /\ delivered = 0
    /\ direct = FALSE

\* the review agent runs without the client: no window, the store untouched
NoClient == StoreCreated /\ hasWindow = FALSE /\ innerWidth = 0

Next ==
    \/ GetPrDiff /\ UNCHANGED mobileVars
    \/ DryRun /\ UNCHANGED mobileVars
    \/ GetReviewFromGlm /\ UNCHANGED mobileVars
    \/ InterpretReply /\ UNCHANGED mobileVars
    \/ PostCodexReview /\ UNCHANGED mobileVars
    \/ PostCodexReviewWithFallback /\ UNCHANGED mobileVars

\* the review agent at its start, in a process of its own
AgentInit == Init /\ NoClient

Spec == AgentInit /\ [][Next]_<<vars, mobileVars>>

(***************************************************************************)
(* What the claims speak of.                                               *)
(***************************************************************************)
\* how often main has called f
CalledCount(f) == Cardinality({ k \in 1..Len(called) : called[k] = f })

WasCalled(f) == CalledCount(f) > 0

PublisherCalls ==
    CalledCount("postCodexReview") + CalledCount("postCodexReviewWithFallback")

\* the console lines with message m
Logged(m) == { k \in 1..Len(log) : log[k].msg = m }

\* the values read for the environment variable (or file) called name
ReadValues(name) == { env[k].value : k \in { j \in 1..Len(env) : env[j].name = name } }

\* a string is absent or empty
AbsentOrEmpty(e) == e.set = FALSE \/ Len(e.v) = 0

\* the git commands that exited non-zero
FailedVcs(cmd) == { k \in 1..Len(vcs) : vcs[k].cmd = cmd /\ vcs[k].exit # 0 }

\* p is a prefix of the run-length encoded string d
RunsPrefix(p, d) ==
    /\ Len(p) <= Len(d)
    /\ \A k \in 1..Len(p) :
         /\ p[k].c = d[k].c
         /\ IF k < Len(p) THEN p[k].n = d[k].n ELSE p[k].n <= d[k].n /\ p[k].n > 0

(***************************************************************************)
(* C1.  In every run at most one of the two publishers is invoked:         *)
(* postCodexReview and postCodexReviewWithFallback are never both called,  *)
(* and at most one review-creation POST is issued.                         *)
(***************************************************************************)
C1_OnePublisherPerRun ==
    /\ ~(WasCalled("postCodexReview") /\ WasCalled("postCodexReviewWithFallback"))
    /\ PublisherCalls <= 1
    /\ Len(ghPosts) <= 1

\* a run that ended after a publisher posted its review
C1_Witness ==
    /\ pc = "exited"
    /\ PublisherCalls = 1
    /\ Len(ghPosts) = 1

\* the preview of a dry run that ended well: a prefix of the diff of
\* min(length, 2000) characters, the marker right after it exactly when the
\* diff is longer
C2_DryRunPreview ==
    (isDryRun /\ pc = "exited" /\ exitCode = 0) =>
        /\ Cardinality(Logged("preview")) = 1
        /\ \A k \in Logged("preview") :
             /\ RunsPrefix(log[k].arg, diff)
             /\ RunsLen(log[k].arg) = Min(RunsLen(diff), 2000)
             /\ (RunsLen(diff) > 2000) <=> (log[k + 1].msg = "... (truncated)")
        /\ Cardinality(Logged("... (truncated)")) <= 1

\* a dry run performs no network call
C2_NoNetwork == isDryRun => llmCalls = <<>> /\ ghPosts = <<>>

(***************************************************************************)
(* C2.  As claimed: with --dry-run no network call is performed and the    *)
(* process exits with status 0 for every outcome of the diff stage; the    *)
(* preview is the first 2000 characters of the diff at most, followed by   *)
(* the truncation marker exactly when the diff is longer.                  *)
(***************************************************************************)
C2_AsClaimed ==
    /\ C2_NoNetwork
    /\ (isDryRun /\ pc = "exited") => exitCode = 0
    /\ C2_DryRunPreview

(***************************************************************************)
(* C2, amended.  With --dry-run no network call is ever performed; the     *)
(* process exits with status 0 when git diff succeeded and with status 1,  *)
(* without a preview, when git diff failed; the preview is the first       *)
(* min(length, 2000) characters of the diff, followed by the truncation    *)
(* marker exactly when the diff is longer than 2000 characters.            *)
(***************************************************************************)
C2_DryRun ==
    /\ C2_NoNetwork
    /\ (isDryRun /\ pc = "exited") =>
          /\ (exitCode = 0) <=> (FailedVcs("diff") = {})
          /\ (exitCode = 1) <=> (FailedVcs("diff") # {})
          /\ FailedVcs("diff") # {} => Logged("preview") = {}
    /\ C2_DryRunPreview

\* a dry run of a diff longer than the preview: the marker is printed
C2_Witness ==
    /\ isDryRun
    /\ pc = "exited"
    /\ exitCode = 0
    /\ RunsLen(diff) > 2000
    /\ Logged("... (truncated)") # {}

(***************************************************************************)
(* C3.  When getReviewFromGlm finds Z_AI_API_KEY absent or empty it fails  *)
(* with the configuration error before any network call: the run issues    *)
(* no LLM POST and no code-hosting POST and exits non-zero.                *)
(***************************************************************************)
C3_NoKeyNoNetwork ==
    (\E key \in ReadValues("Z_AI_API_KEY") : AbsentOrEmpty(key)) =>
        /\ llmCalls = <<>>
        /\ ghPosts = <<>>
        /\ pc = "exited"
        /\ exitCode # 0
        /\ Len(thrown) = 1
        /\ thrown[1].message = "Z_AI_API_KEY secret is not set."

\* getReviewFromGlm was called with the variable set to the empty string
C3_Witness ==
    /\ WasCalled("getReviewFromGlm")
    /\ [set |-> TRUE, v |-> <<>>] \in ReadValues("Z_AI_API_KEY")
    /\ pc = "exited"

(***************************************************************************)
(* The reply as the interpreter sees it.                                   *)
(***************************************************************************)
\* the reply has been interpreted (main is past line 309)
Interpreted == rawReview # <<>> /\ pc # "reviewed"

\* the JSON candidate of the reply: the text from its first "{" to its last
\* "}", or the whole reply when it has no such pair; parsed
Candidate == JsonParse(JsonStr(rawReview))

CandidateIsJson == Candidate.ok

\* the candidate is JSON with an issues field shaped as a list
CandidateHasIssueList == Candidate.ok /\ OptProp(Candidate.v, "issues").t = "arr"

\* s ends with t
IsSuffix(t, s) ==
    Len(t) <= Len(s) /\ SubSeq(s, Len(s) - Len(t) + 1, Len(s)) = t

\* every review posted has no inline comment
NoInlineComments == \A k \in 1..Len(ghPosts) : ghPosts[k].comments = <<>>

\* the run took the fallback publisher, not the structured one
TookFallback ==
    /\ pc # "structured"
    /\ ~WasCalled("postCodexReview")
    /\ pc = "exited" => WasCalled("postCodexReviewWithFallback")
    /\ NoInlineComments
    /\ \A k \in 1..Len(ghPosts) : IsSuffix(<<Separator>> \o rawReview, ghPosts[k].body)

(***************************************************************************)
(* C4.  As claimed: whenever the reply is not valid JSON, or is valid JSON *)
(* without an issues field shaped as a list, the run takes the fallback    *)
(* publisher: the raw reply is posted as one fallback comment, without     *)
(* inline comments, and the structured publisher is not invoked.           *)
(***************************************************************************)
C4_AsClaimed == (Interpreted /\ ~CandidateHasIssueList) => TookFallback

(***************************************************************************)
(* C4, amended.  Whenever the JSON candidate of the reply (the text from   *)
(* its first "{" to its last "}", or the whole reply without such a pair)  *)
(* is not valid JSON, the run takes the fallback publisher: the structured *)
(* publisher is not invoked and the review posted carries the raw reply    *)
(* and no inline comment.  A candidate that is valid JSON without a        *)
(* list-shaped issues field goes to the structured publisher with the      *)
(* empty issue list, and the review posted has no inline comment either.   *)
(***************************************************************************)
C4_FallbackOnParseFailure ==
    Interpreted =>
        /\ ~CandidateIsJson => parseFailed /\ TookFallback
        /\ (CandidateIsJson /\ ~CandidateHasIssueList) =>
              /\ ~parseFailed
              /\ issues = <<>>
              /\ pc # "fallback"
              /\ ~WasCalled("postCodexReviewWithFallback")
              /\ pc = "exited" => WasCalled("postCodexReview")
              /\ NoInlineComments

\* a reply that is not JSON was posted by the fallback publisher
C4_Witness ==
    /\ Interpreted
    /\ ~CandidateIsJson
    /\ pc = "exited"
    /\ WasCalled("postCodexReviewWithFallback")
    /\ Len(ghPosts) = 1
    /\ exitCode = 0

(***************************************************************************)
(* The prerequisites of publishing, as the publisher read them.            *)
(***************************************************************************)
\* the payload read does not yield a pull-request number
PayloadWithoutNumber(f) ==
    \/ ~f.readable
    \/ ~JsonParse(f.text).ok
    \/ OptProp(OptProp(JsonParse(f.text).v, "pull_request"), "number").t
         \in {"undefined", "null"}

PrUnresolved ==
    \/ \E path \in ReadValues("GITHUB_EVENT_PATH") : AbsentOrEmpty(path)
    \/ \E f \in ReadValues("event file") : PayloadWithoutNumber(f)

PrerequisiteMissing ==
    \/ PrUnresolved
    \/ \E t \in ReadValues("GITHUB_TOKEN") : AbsentOrEmpty(t)
    \/ \E r \in ReadValues("GITHUB_REPOSITORY") : AbsentOrEmpty(r)

SkipWarnings ==
    Logged("Missing GITHUB_TOKEN, GITHUB_REPOSITORY, or PR number. Skipping review.")
    \cup Logged("Missing GITHUB_TOKEN, GITHUB_REPOSITORY, or PR number. Skipping.")

(***************************************************************************)
(* C5.  As claimed: if the pull-request number cannot be resolved from the *)
(* event payload (event-path variable unset, payload file unreadable or    *)
(* not JSON, payload without pull_request.number), or the token or the     *)
(* repository identifier is missing, then in both publishers no review     *)
(* POST is issued, a warning is logged and the process exits with status 0.*)
(***************************************************************************)
C5_AsClaimed ==
    (pc = "exited" /\ PublisherCalls > 0 /\ PrerequisiteMissing) =>
        /\ ghPosts = <<>>
        /\ SkipWarnings # {}
        /\ exitCode = 0

(***************************************************************************)
(* C6.  As claimed: a parse failure on the reply never terminates the run: *)
(* for every reply text (malformed JSON, JSON of the wrong shape, an       *)
(* issues list with null entries) the interpretation raises no uncaught    *)
(* error and the run proceeds to exactly one publisher, wrong-shape        *)
(* replies going to the fallback publisher.                                *)
(***************************************************************************)
C6_AsClaimed ==
    (pc = "exited" /\ rawReview # <<>>) =>
        /\ PublisherCalls = 1
        /\ ~CandidateHasIssueList => WasCalled("postCodexReviewWithFallback")

(***************************************************************************)
(* C7.  As claimed: every failure of a version-control command is fatal:   *)
(* when git diff or git rev-parse exits non-zero the run ends with a       *)
(* non-zero exit status and no review is posted.                           *)
(***************************************************************************)
C7_AsClaimed ==
    (FailedVcs("diff") # {} \/ FailedVcs("rev-parse") # {}) =>
        /\ ghPosts = <<>>
        /\ pc = "exited" => exitCode # 0

(***************************************************************************)
(* Issue lists and the reviews posted for them.                            *)
(***************************************************************************)
\* a ReviewIssue record
WellTyped(i) ==
    /\ i.t = "obj"
    /\ Prop(i, "path").t = "str"
    /\ Prop(i, "line").t = "num"
    /\ Prop(i, "severity").t = "str"
    /\ Prop(i, "title").t = "str"
    /\ Prop(i, "body").t = "str"

\* the token, the repository and a non-zero pull-request number were read
PrerequisitesPresent ==
    /\ \E t \in ReadValues("GITHUB_TOKEN") : ~AbsentOrEmpty(t)
    /\ \E r \in ReadValues("GITHUB_REPOSITORY") : ~AbsentOrEmpty(r)
    /\ \E f \in ReadValues("event file") :
         /\ f.readable
         /\ JsonParse(f.text).ok
         /\ LET n == OptProp(OptProp(JsonParse(f.text).v, "pull_request"), "number")
            IN  n.t = "num" /\ n.n # 0

Chunks(text) == { text[k] : k \in 1..Len(text) }

(***************************************************************************)
(* C8.  For every issue list of length N >= 0 handed to the structured     *)
(* publisher with all prerequisites present, the single review-creation    *)
(* request carries exactly N inline comments, one per issue in list order, *)
(* each with the issue's path and line, side "RIGHT" and the body          *)
(* **{severity}** {title}\n\n{body}; the review body contains the "No      *)
(* critical issues found" affirmation exactly when N = 0.                  *)
(***************************************************************************)
C8_InlineComments ==
    WasCalled("postCodexReview") =>
        /\ (pc = "exited" /\ PrerequisitesPresent) => Len(ghPosts) = 1
        /\ \A p \in 1..Len(ghPosts) :
             LET post == ghPosts[p] IN
             /\ Len(post.comments) = Len(issues)
             /\ \A k \in 1..Len(issues) :
                  WellTyped(issues[k]) =>
                    /\ post.comments[k].path = Prop(issues[k], "path")
                    /\ post.comments[k].line = Prop(issues[k], "line")
                    /\ post.comments[k].side = "RIGHT"
                    /\ post.comments[k].body =
                         <<"**", Prop(issues[k], "severity").s, "** ",
                           Prop(issues[k], "title").s, "\n\n",
                           Prop(issues[k], "body").s>>
             /\ Len(issues) = 0 => post.comments = <<>>
             /\ (Len(issues) = 0) <=>
                  ("\n\nNo critical issues found. (check)" \in Chunks(post.body))

\* a review with MaxIssues inline comments was posted for two distinct issues
C8_Witness ==
    /\ WasCalled("postCodexReview")
    /\ Len(ghPosts) = 1
    /\ Len(issues) = MaxIssues
    /\ \A k \in 1..Len(issues) : WellTyped(issues[k])
    /\ issues[1] = IssueValue(IssueA)
    /\ issues[2] = IssueValue(IssueB)
    /\ Len(ghPosts[1].comments) = MaxIssues

(***************************************************************************)
(* The message of a successful response, as the claims about               *)
(* getReviewFromGlm read it.                                               *)
(***************************************************************************)
\* the response passed the status, error and code checks
Successful(resp) ==
    /\ resp.ok
    /\ resp.bodyIsJson
    /\ ~resp.data.error
    /\ resp.data.code \in {0, 200}

FirstMessagePresent(resp) ==
    /\ resp.data.hasChoices
    /\ Len(resp.data.choices) >= 1
    /\ resp.data.choices[1].hasMessage

ContentField(resp) ==
    IF FirstMessagePresent(resp) THEN resp.data.choices[1].message.content
    ELSE [st |-> "missing", v |-> <<>>]

ReasoningField(resp) ==
    IF FirstMessagePresent(resp) THEN resp.data.choices[1].message.reasoning_content
    ELSE [st |-> "missing", v |-> <<>>]

IsSpace(c) == c \in {" ", "\n"}

\* null, missing, empty or white space only
FieldAbsent(f) == f.st # "str" \/ \A k \in 1..Len(f.v) : IsSpace(f.v[k])

\* t is s without its leading and trailing white space
IsTrimOf(t, s) ==
    \E a \in 0..Len(s) :
        /\ a + Len(t) <= Len(s)
        /\ SubSeq(s, a + 1, a + Len(t)) = t
        /\ \A k \in 1..a : IsSpace(s[k])
        /\ \A k \in (a + Len(t) + 1)..Len(s) : IsSpace(s[k])
        /\ t # <<>> => ~IsSpace(t[1]) /\ ~IsSpace(t[Len(t)])

\* the call failed with the structural summary of the response and nothing else
FailedWithStructure(resp) ==
    /\ pc = "exited"
    /\ exitCode = 1
    /\ rawReview = <<>>
    /\ Len(thrown) = 1
    /\ thrown[1].message = "No review content in Z.AI response. Response structure:"
    /\ DOMAIN thrown[1].detail =
         {"hasChoices", "choicesLen", "hasFirstChoice", "hasMessage", "messageKeys"}
    /\ thrown[1].detail.hasChoices = resp.data.hasChoices
    /\ thrown[1].detail.choicesLen =
         (IF resp.data.hasChoices THEN Len(resp.data.choices) ELSE 0)
    /\ thrown[1].detail.hasMessage = FirstMessagePresent(resp)
    /\ Chunks(thrown[1].detail.messageKeys) \subseteq {"content", "reasoning_content"}

(***************************************************************************)
(* C9.  As claimed: on a successful response, when content and reasoning   *)
(* are both present the result is reasoning, the separator, content; when  *)
(* exactly one is present the result is that field; when neither is, the   *)
(* call fails with the structural summary.  A null, missing, empty or      *)
(* white-space-only field counts as absent.                                *)
(***************************************************************************)
C9_AsClaimed ==
    \A k \in 1..Len(llmReplies) :
      LET resp == llmReplies[k]
          c    == ContentField(resp)
          r    == ReasoningField(resp)
      IN  Successful(resp) =>
            /\ (~FieldAbsent(c) /\ ~FieldAbsent(r)) =>
                  rawReview = r.v \o <<"\n\n---\n\n">> \o c.v
            /\ (~FieldAbsent(c) /\ FieldAbsent(r)) => rawReview = c.v
            /\ (FieldAbsent(c) /\ ~FieldAbsent(r)) => rawReview = r.v
            /\ (FieldAbsent(c) /\ FieldAbsent(r)) => FailedWithStructure(resp)

(***************************************************************************)
(* C9, amended.  On a successful response, when content and reasoning are  *)
(* both present the result is the trimmed reasoning, the separator         *)
(* "\n\n---\n\n", the trimmed content; when exactly one is present the     *)
(* result is that field with its leading and trailing white space removed; *)
(* when neither is, the call fails with the structural summary.  A null,   *)
(* missing, empty or white-space-only field counts as absent.              *)
(***************************************************************************)
C9_ExtractTrimmed ==
    \A k \in 1..Len(llmReplies) :
      LET resp == llmReplies[k]
          c    == ContentField(resp)
          r    == ReasoningField(resp)
      IN  Successful(resp) =>
            /\ (~FieldAbsent(c) /\ ~FieldAbsent(r)) =>
                  \E i \in 1..Len(rawReview) :
                     /\ rawReview[i] = "\n\n---\n\n"
                     /\ IsTrimOf(SubSeq(rawReview, 1, i - 1), r.v)
                     /\ IsTrimOf(SubSeq(rawReview, i + 1, Len(rawReview)), c.v)
            /\ (~FieldAbsent(c) /\ FieldAbsent(r)) => IsTrimOf(rawReview, c.v)
            /\ (FieldAbsent(c) /\ ~FieldAbsent(r)) => IsTrimOf(rawReview, r.v)
            /\ (FieldAbsent(c) /\ FieldAbsent(r)) => FailedWithStructure(resp)

\* both fields present, each with white space around it
C9_Witness ==
    /\ Len(llmReplies) = 1
    /\ Successful(llmReplies[1])
    /\ ~FieldAbsent(ContentField(llmReplies[1]))
    /\ ~FieldAbsent(ReasoningField(llmReplies[1]))
    /\ IsSpace(ContentField(llmReplies[1]).v[1])
    /\ IsSpace(ReasoningField(llmReplies[1]).v[1])
    /\ pc = "reviewed"

\* the issue lists of the well-formed {"issues":[...]} objects in the reply
EmbeddedIssueLists ==
    { JsonParse(SubSeq(rawReview, ij[1], ij[2])).v.e[1].v.e :
        ij \in { p \in BracePositions(rawReview, "{") \X BracePositions(rawReview, "}") :
                   /\ p[1] < p[2]
                   /\ rawReview[p[1] + 1] = "\"issues\""
                   /\ LET d == JsonParse(SubSeq(rawReview, p[1], p[2])) IN
                      /\ d.ok
                      /\ Len(d.v.e) = 1
                      /\ d.v.e[1].v.t = "arr" } }

(***************************************************************************)
(* C10.  As claimed: when the reply contains a well-formed                 *)
(* {"issues":[...]} object embedded anywhere in surrounding prose (prose   *)
(* or a prepended reasoning section with brace characters included), the   *)
(* interpreter extracts exactly that issue list and the run takes the      *)
(* structured publisher with it.                                           *)
(***************************************************************************)
C10_AsClaimed ==
    Interpreted =>
        \A list \in EmbeddedIssueLists :
            /\ ~parseFailed
            /\ issues = list
            /\ pc # "fallback"
            /\ ~WasCalled("postCodexReviewWithFallback")

(***************************************************************************)
(* C11.  For every diff passed to getReviewFromGlm, the diff embedded in   *)
(* the user message of the LLM request is the first min(length, 100000)    *)
(* characters of the diff: never more than 100,000 characters, cut at      *)
(* exactly 100,000 when the diff is longer, the diff itself when it is not.*)
(***************************************************************************)
C11_DiffCapped ==
    \A k \in 1..Len(llmCalls) :
        /\ RunsPrefix(llmCalls[k].userDiff, diff)
        /\ RunsLen(llmCalls[k].userDiff) <= 100000
        /\ RunsLen(llmCalls[k].userDiff) = Min(RunsLen(diff), 100000)
        /\ RunsLen(diff) <= 100000 => llmCalls[k].userDiff = diff

\* a diff longer than the cap was sent, cut inside its last run
C11_Witness ==
    /\ Len(llmCalls) = 1
    /\ RunsLen(diff) > 100000
    /\ RunsLen(llmCalls[1].userDiff) = 100000
    /\ Len(llmCalls[1].userDiff) = Len(diff)
    /\ llmCalls[1].userDiff # diff

(***************************************************************************)
(* The stages of a run.                                                    *)
(***************************************************************************)
\* how far main has come: the diff, the LLM request, the interpretation,
\* the publication, the end
StageRank(p) ==
    CASE p = "main" -> 0
      [] p = "diffed" -> 1
      [] p = "reviewed" -> 2
      [] p \in {"structured", "fallback"} -> 3
      [] p = "exited" -> 4

\* the functions of the stages in their order
StageOrder ==
    { <<>>, <<"getPrDiff">>, <<"getPrDiff", "getReviewFromGlm">>,
      <<"getPrDiff", "getReviewFromGlm", "postCodexReview">>,
      <<"getPrDiff", "getReviewFromGlm", "postCodexReviewWithFallback">> }

\* the LLM call of this run returned a reply
LlmSucceeded ==
    /\ Len(llmCalls) = 1
    /\ Len(llmReplies) = 1
    /\ Successful(llmReplies[1])
    /\ rawReview # <<>>

\* what holds in every state of a run
StagesInOrder ==
    /\ called \in StageOrder
    /\ Len(llmCalls) <= 1
    /\ Len(ghPosts) <= 1
    /\ llmCalls # <<>> => WasCalled("getPrDiff") /\ FailedVcs("diff") = {}
    /\ StageRank(pc) \in {2, 3} => LlmSucceeded
    /\ PublisherCalls > 0 => LlmSucceeded /\ Interpreted
    /\ ghPosts # <<>> => LlmSucceeded /\ Interpreted /\ PublisherCalls = 1
    /\ thrown # <<>> => pc = "exited" /\ exitCode # 0 /\ Len(thrown) = 1
    /\ (pc = "exited" /\ exitCode # 0) => thrown # <<>>

\* what holds of every step of a run: it is one stage forward, the LLM is
\* called only by the request stage and the code-hosting API only by the
\* publication stage, and nothing follows a failure or the end
StepForward ==
    /\ StageRank(pc') > StageRank(pc)
    /\ pc # "exited"
    /\ thrown = <<>>
    /\ llmCalls' # llmCalls => pc = "diffed"
    /\ ghPosts' # ghPosts => StageRank(pc) = 3
    /\ thrown' # <<>> =>
          /\ pc' = "exited"
          /\ exitCode' # 0
          /\ Len(called') <= Len(called) + 1

(***************************************************************************)
(* C12.  In every run the stages occur in the order diff, LLM request,     *)
(* interpretation, publication, with no retry: the LLM endpoint is called  *)
(* at most once, the code-hosting API at most once and only after the LLM  *)
(* call of the same run completed successfully; after a stage fails (its   *)
(* error reaches main().catch) no later stage is started and the process   *)
(* terminates with a non-zero status.                                      *)
(***************************************************************************)
C12_StagesInOrderNoRetry == [](StagesInOrder) /\ [][StepForward]_vars

\* a run that went through every stage and failed in the last one
C12_Witness ==
    /\ called = <<"getPrDiff", "getReviewFromGlm", "postCodexReview">>
    /\ Len(llmCalls) = 1
    /\ Len(ghPosts) = 1
    /\ Len(thrown) = 1
    /\ thrown[1].message = "GitHub API error"
    /\ pc = "exited"
    /\ exitCode = 1

(***************************************************************************)
(* The mobile store: its operations and the window's events.               *)
(***************************************************************************)
\* a variant of the test of line 37 that forgets the module's flag
InitReturnsEarlyNoFlag == ~hasWindow

\* line 37: mobileListenerInitialized || typeof window === 'undefined'
InitReturnsEarly == mobileListenerInitialized \/ ~hasWindow

\* lines 36-46: init
StoreInit ==
    /\ initCalls' = initCalls + 1
    /\ IF InitReturnsEarly
         THEN UNCHANGED <<mobileListenerInitialized, isMobile, listeners>>
         ELSE /\ mobileListenerInitialized' = TRUE
              /\ listeners' = listeners + 1
              /\ isMobile' = BelowBreakpoint(innerWidth)

\* part_002 lines 7-9: the effect of a component that mounts calls init
UseIsMobile(c) ==
    /\ c \notin mounted
    /\ initCalls < MaxInitCalls
    /\ mounted' = mounted \cup {c}
    /\ StoreInit
    /\ UNCHANGED <<hasWindow, innerWidth, pending, delivered, direct>>

\* a component unmounts: the effect has no cleanup
Unmount(c) ==
    /\ c \in mounted
    /\ mounted' = mounted \ {c}
    /\ UNCHANGED <<mobileListenerInitialized, isMobile, listeners, hasWindow,
                   innerWidth, initCalls, pending, delivered, direct>>

\* line 35: setMobile
SetMobile(value) ==
    /\ isMobile' = value
    /\ direct' = TRUE
    /\ UNCHANGED <<mobileListenerInitialized, listeners, hasWindow, innerWidth,
                   mounted, initCalls, pending, delivered>>

\* the window is resized; the media query queues a change event when its
\* result changes
Resize(w) ==
    /\ hasWindow
    /\ w # innerWidth
    /\ innerWidth' = w
    /\ IF Matches(w) # Matches(innerWidth)
         THEN pending < MaxEvents /\ pending' = pending + 1
         ELSE UNCHANGED pending
    /\ UNCHANGED <<mobileListenerInitialized, isMobile, listeners, hasWindow,
                   mounted, initCalls, delivered, direct>>

\* lines 41-43: a change event is delivered to every registered onChange
Change ==
    /\ pending > 0
    /\ delivered < MaxEvents
    /\ pending' = pending - 1
    /\ delivered' = delivered + 1
    /\ isMobile' = IF listeners > 0 THEN BelowBreakpoint(innerWidth)
                                    ELSE isMobile
    /\ UNCHANGED <<mobileListenerInitialized, listeners, hasWindow, innerWidth,
                   mounted, initCalls, direct>>

\* the client: the store as loaded, in a browser of some width or with no
\* window; the review agent is not part of it
MobileInit ==
    /\ StoreCreated
    /\ hasWindow \in BOOLEAN
    /\ innerWidth \in (IF hasWindow THEN Widths ELSE {0})
    /\ Init
    /\ ~isDryRun

MobileNext ==
    \/ \E c \in Components : UseIsMobile(c) /\ UNCHANGED vars
    \/ \E c \in Components : Unmount(c) /\ UNCHANGED vars
    \/ \E value \in BOOLEAN : SetMobile(value) /\ UNCHANGED vars
    \/ \E w \in Widths : Resize(w) /\ UNCHANGED vars
    \/ Change /\ UNCHANGED vars

MobileSpec == MobileInit /\ [][MobileNext]_<<vars, mobileVars>>

\* what holds in every state of the store
ListenerOnce ==
    /\ listeners <= 1
    /\ listeners = 1 <=> mobileListenerInitialized
    /\ mobileListenerInitialized => hasWindow /\ initCalls > 0
    /\ (initCalls = 0 /\ ~direct) => isMobile = FALSE
    /\ (~mobileListenerInitialized /\ ~direct) => isMobile = FALSE
    /\ (mobileListenerInitialized /\ ~direct /\ pending = 0) =>
          isMobile = BelowBreakpoint(innerWidth)

\* what holds of every step of the store: the first init in a window sets
\* isMobile from the width, a later init changes nothing, and a delivered
\* change event leaves isMobile equal to (width < 768)
InitOnceThenFollow ==
    /\ (initCalls' = initCalls + 1 /\ mobileListenerInitialized) =>
          UNCHANGED <<mobileListenerInitialized, isMobile, listeners>>
    /\ (initCalls' = initCalls + 1 /\ ~mobileListenerInitialized /\ hasWindow) =>
          /\ listeners' = 1
          /\ isMobile' = (innerWidth' < 768)
    /\ (delivered' = delivered + 1 /\ mobileListenerInitialized /\ ~direct') =>
          isMobile' = (innerWidth' < 768)

(***************************************************************************)
(* C13.  useMobileStore.init is idempotent over any number of calls from   *)
(* any number of mounted components: the change listener of the media      *)
(* query is registered at most once in the lifetime of the module; with no *)
(* direct setMobile call, isMobile is false before the first init and,     *)
(* after the first init, equals (window width < 768) after every delivered *)
(* change event.                                                           *)
(***************************************************************************)
C13_InitIdempotent ==
    [](ListenerOnce) /\ [][InitOnceThenFollow]_<<vars, mobileVars>>

\* two components have called init three times between them, one listener
\* is registered, and a delivered change event has made the store mobile
C13_Witness ==
    /\ Cardinality(mounted) = 2
    /\ initCalls = 3
    /\ listeners = 1
    /\ delivered >= 1
    /\ pending = 0
    /\ ~direct
    /\ innerWidth = 767
    /\ isMobile

=============================================================================
